---- MODULE Spec2Model ----
(***************************************************************************)
(* A model of vechonk's RawVechonk<T> (src/src/raw.rs): one heap           *)
(* allocation holding the element bytes from the front and the PtrData<T>  *)
(* records from the back.  The allocation is modelled byte by byte so that *)
(* overlapping writes, truncated copies and mis-aligned addresses show.    *)
(***************************************************************************)
EXTENDS Integers, Sequences, FiniteSets, TLC

\* ---------------------------------------------------------------- bounds
MaxLen == 3        \* most elements held at once
MaxCap == 144      \* largest allocation explored (bytes)
MaxOps == 4        \* operations performed on one container after its construction

\* ------------------------------------------------------ program constants
DataSize  == 16    \* mem::size_of::<PtrData<T>>()  for T = dyn Any / str on a 64-bit target
DataAlign == 8     \* mem::align_of::<PtrData<T>>()
Dangling  == 1     \* NonNull::<u8>::dangling(): the address align_of::<u8>()

\* (size, align) of element types the tests push: (), u8 and u128
ElemLayouts == { <<0, 1>>, <<1, 1>>, <<16, 16>> }

\* capacity hints given to with_capacity: none, and one that is no multiple of DataAlign
CapHints == { 0, 52 }

\* the elements a caller can hand over as Box<T> in its n-th operation; the bytes of
\* every element handed over are its own, so val is the number of the operation
Elems(n) == { [size |-> l[1], align |-> l[2], val |-> n] : l \in ElemLayouts }

\* addresses the allocator can return for a Layout aligned to DataAlign:
\* two heap regions, each starting at a 16-aligned or at an only-8-aligned address
AllocAddrs == { 1024, 1024 + DataAlign, 2048, 2048 + DataAlign }

\* the heap region an address lies in
Block(addr) == addr \div 1024

\* ------------------------------------------------------------ heap cells
\* a byte that was never written (zeroed in debug builds, uninitialised otherwise)
Fresh == <<"fresh", 0, 0, 0>>
\* a byte outside the allocation
OutOfBounds == <<"oob", 0, 0, 0>>
\* byte k of an element carrying pattern val
ElemByte(val, k) == <<"byte", val, k, 0>>
\* the bytes of one PtrData<T>: the first holds offset and metadata, the others continue it
DataHead(offset, size, align) == <<"data", offset, size, align>>
DataCont(j) == <<"cont", j, 0, 0>>

\* the value of a Box<T>: its metadata (size, align) and its bytes
Value(e) == [size |-> e.size, align |-> e.align,
             bytes |-> [k \in 1..e.size |-> ElemByte(e.val, k - 1)]]
NoValue == [size |-> 0, align |-> 0, bytes |-> <<>>]

VARIABLES
    ptr,        \* RawVechonk::ptr, as an address
    len,        \* RawVechonk::len
    cap,        \* RawVechonk::cap
    elem_size,  \* RawVechonk::elem_size
    mem,        \* the bytes of the allocation at ptr: 0..cap-1 -> cell
    shadow,     \* the values the caller has stored, in index order
    placed,     \* the offset each of them was copied to
    regrows,    \* how many times regrow has run
    lastOp,     \* the operation that produced this state, its argument and result
    before,     \* what get(i) returned for each i before that operation
    history,    \* "new", "pushes" (only pushes so far), "pops" (pushes then only pops), "mixed"
    ops,        \* how many operations have been performed since construction
    heap,       \* the allocator: the live allocations, how many were freed, how many frees were invalid
    owner,      \* who owns the allocation: "vechonk", "into_iter", or "none" once it is dropped
    iter,       \* the Iter, IterMut or IntoIter in use, if any
    obs,        \* the last call of get or index on this state and its result
    other,      \* a second Vechonk, with its memory, and the values pushed to it
    replaced,   \* the indices whose element was stored by a successful try_replace_elem
    dropped,    \* the indices of the elements whose destructor a Drop impl has run
    handed      \* the values returned to the caller as a Box<T> of its own, in order

vars == <<ptr, len, cap, elem_size, mem, shadow, placed, regrows, lastOp, before, history, ops,
          heap, owner, iter, obs, other, replaced, dropped, handed>>

\* self: the fields of a RawVechonk together with the memory behind ptr
Self == [ptr |-> ptr, len |-> len, cap |-> cap, elem_size |-> elem_size, mem |-> mem]

\* ------------------------------------------------------ layout arithmetic
\* force_align rounding up to the next multiple instead of down
force_align_up(size, align) == size + ((align - (size % align)) % align)

force_align(size, align) == size - (size % align)

saturating_sub(a, b) == IF a >= b THEN a - b ELSE 0

\* <*mut u8>::align_offset: bytes to add to addr to reach a multiple of align
\* (for a byte pointer at run time it always finds one, so push never takes its panic branch)
align_offset(addr, align) == (align - (addr % align)) % align

data_section_size(self) == self.len * DataSize

offset_for_data(self, index) == saturating_sub(self.cap, DataSize * (index + 1))

\* needs_grow with the PtrData<T> section left out of the space in use
needs_grow_without_data(self, additional_size) ==
    additional_size > self.cap - self.elem_size

needs_grow(self, additional_size) ==
    additional_size > self.cap - (self.elem_size + data_section_size(self))

\* ------------------------------------------------------------ raw memory
ReadByte(self, o) == IF o >= 0 /\ o < self.cap THEN self.mem[o] ELSE OutOfBounds

\* ptr::copy_nonoverlapping of an element's bytes to offset dest
WriteBytes(m, dest, bytes) ==
    [o \in DOMAIN m |->
        IF o >= dest /\ o < dest + Len(bytes) THEN bytes[o - dest + 1] ELSE m[o]]

DataBytes(offset, size, align) ==
    [j \in 1..DataSize |-> IF j = 1 THEN DataHead(offset, size, align) ELSE DataCont(j - 1)]

get_data_ptr(self, index) == offset_for_data(self, index)

\* the PtrData<T> stored behind get_data_ptr(index) is whole
DataIntact(self, index) ==
    LET p == get_data_ptr(self, index) IN
    /\ ReadByte(self, p)[1] = "data"
    /\ \A j \in 1..(DataSize - 1) : ReadByte(self, p + j) = DataCont(j)

\* what get_data reads where no whole PtrData<T> is stored (the slot was never written,
\* or element bytes were copied over it): the PtrData<T> that zero bytes encode
JunkData == [offset |-> 0, size |-> 0, align |-> 1]

get_data(self, index) ==
    LET p == get_data_ptr(self, index) IN
    IF DataIntact(self, index)
    THEN [offset |-> ReadByte(self, p)[2], size |-> ReadByte(self, p)[3],
          align |-> ReadByte(self, p)[4]]
    ELSE JunkData

\* write_meta_data storing the PtrData<T> one slot too far
write_meta_data_next_slot(self, e, offset, index) ==
    WriteBytes(self.mem, get_data_ptr(self, index + 1), DataBytes(offset, e.size, e.align))

write_meta_data(self, e, offset, index) ==
    WriteBytes(self.mem, get_data_ptr(self, index), DataBytes(offset, e.size, e.align))

sizeof_elem(self, index) == get_data(self, index).size

\* the address of element index
get_unchecked_ptr(self, index) == self.ptr + get_data(self, index).offset

\* the value read through the fat pointer of element index
ReadElem(self, index) ==
    LET data == get_data(self, index) IN
    [size |-> data.size, align |-> data.align,
     bytes |-> [k \in 1..data.size |-> ReadByte(self, data.offset + k - 1)]]

\* the element copied out into a Box of its own (the allocation of the Box succeeds)
box_elem_unchecked(self, index) == ReadElem(self, index)

\* Vechonk::get taking index = len for an element as well
get_inclusive(self, index) ==
    IF index <= self.len THEN [tag |-> "Some", val |-> ReadElem(self, index)]
    ELSE [tag |-> "None", val |-> NoValue]

\* Vechonk::get
get(self, index) ==
    IF index < self.len THEN [tag |-> "Some", val |-> ReadElem(self, index)]
    ELSE [tag |-> "None", val |-> NoValue]

\* what get(i) returns for every index in bounds
Elements(self) == [i \in 1..self.len |-> ReadElem(self, i - 1)]

\* ------------------------------------------------------------ allocation
\* realloc: a new allocation of size bytes at new_ptr; nothing is copied
realloc(self, size, new_ptr) ==
    [self EXCEPT !.ptr = new_ptr, !.cap = size, !.mem = [o \in 0..(size - 1) |-> Fresh]]

\* regrow asking for min_size without doubling it
regrow_new_cap_undoubled(min_size) == force_align(min_size, DataAlign)

\* the capacity a regrow would ask for without the rounding to the alignment of PtrData<T>
regrow_new_cap_unaligned(min_size) == min_size * 2

\* the capacity regrow asks for
regrow_new_cap(min_size) == force_align(min_size * 2, DataAlign)

\* the heap before anything is allocated
NoHeap == [live |-> {}, freed |-> 0, invalid |-> 0]

\* alloc::alloc::alloc (alloc_zeroed) as realloc calls it: the allocator hands out
\* size bytes at new_ptr
alloc(h, size, new_ptr) ==
    [h EXCEPT !.live = h.live \cup {[ptr |-> new_ptr, size |-> size]}]

\* alloc::alloc::dealloc of (p, c): a live allocation of c bytes at p is freed; anything
\* else (freed before, never allocated, another size) is an invalid free
free(h, c, p) ==
    IF [ptr |-> p, size |-> c] \in h.live
    THEN [h EXCEPT !.live = h.live \ {[ptr |-> p, size |-> c]}, !.freed = h.freed + 1]
    ELSE [h EXCEPT !.invalid = h.invalid + 1]

\* RawVechonk::dealloc handing every buffer to the allocator, also the one of capacity 0
dealloc_without_cap_check(h, c, p) == free(h, c, p)

\* RawVechonk::dealloc
dealloc(h, c, p) == IF c = 0 THEN h ELSE free(h, c, p)

\* what regrow does to the heap: realloc allocates, then the old buffer is freed
regrow_heap(h, self, min_size, new_ptr) ==
    dealloc(alloc(h, regrow_new_cap(min_size), new_ptr), self.cap, self.ptr)

\* what with_capacity does to the heap
with_capacity_heap(capacity, new_ptr) ==
    IF force_align(capacity, DataAlign) = 0 THEN NoHeap
    ELSE alloc(NoHeap, force_align(capacity, DataAlign), new_ptr)

regrow(self, min_size, new_ptr) ==
    LET new_cap == regrow_new_cap(min_size)
        last_data_index == saturating_sub(self.len, 1)
        old_data_offset == offset_for_data(self, last_data_index)
        fresh == realloc(self, new_cap, new_ptr)
        new_data_offset == offset_for_data(fresh, last_data_index)
        \* copy the elements first
        m1 == [o \in 0..(new_cap - 1) |->
                 IF o < self.elem_size THEN ReadByte(self, o) ELSE fresh.mem[o]]
        \* then copy the data
        m2 == [o \in 0..(new_cap - 1) |->
                 IF o >= new_data_offset /\ o < new_data_offset + data_section_size(self)
                 THEN ReadByte(self, old_data_offset + (o - new_data_offset))
                 ELSE m1[o]]
    IN [fresh EXCEPT !.mem = m2]

\* addresses at which a new allocation can be placed while self's is still live
FreeAddrs(self) ==
    { a \in AllocAddrs : IF self.cap = 0 THEN Block(a) = 1 ELSE Block(a) # Block(self.ptr) }

with_capacity(capacity, new_ptr) ==
    LET c == force_align(capacity, DataAlign)
        vechonk == [ptr |-> Dangling, len |-> 0, cap |-> 0, elem_size |-> 0, mem |-> <<>>]
    IN IF c = 0 THEN vechonk ELSE realloc(vechonk, c, new_ptr)

\* ------------------------------------------------------------ operations
\* push deciding on growth without the padding in front of the element
push_grows_without_padding(self, e) ==
    needs_grow(self, e.size + DataSize)

\* push, up to the regrow decision
push_grows(self, e) ==
    needs_grow(self, e.size + DataSize
                     + align_offset(self.ptr + self.elem_size, e.align))

\* the offset at which push stores the element, given the buffer it writes to
push_dest(grown, elem_offset, e) ==
    elem_offset + align_offset(grown.ptr + elem_offset, e.align)

push_elem_size(self, e, dest) == self.elem_size + e.size

push(self, e, new_ptr) ==
    LET elem_offset == self.elem_size
        grown == IF push_grows(self, e)
                 THEN regrow(self, self.cap + e.size + DataSize, new_ptr)
                 ELSE self
        dest == push_dest(grown, elem_offset, e)
        m1 == WriteBytes(grown.mem, dest, Value(e).bytes)
        m2 == write_meta_data([grown EXCEPT !.mem = m1], e, dest, grown.len)
    IN [grown EXCEPT !.mem = m2,
                     !.elem_size = push_elem_size(self, e, dest),
                     !.len = grown.len + 1]

\* pop handing the bytes of the removed element back to the free space
pop_reclaiming(self) ==
    IF self.len = 0
    THEN [self |-> self, ret |-> [tag |-> "None", val |-> NoValue]]
    ELSE [self |-> [self EXCEPT !.len = self.len - 1,
                                !.elem_size = get_data(self, self.len - 1).offset],
          ret |-> [tag |-> "Some", val |-> box_elem_unchecked(self, self.len - 1)]]

pop(self) ==
    IF self.len = 0
    THEN [self |-> self, ret |-> [tag |-> "None", val |-> NoValue]]
    ELSE [self |-> [self EXCEPT !.len = self.len - 1],
          ret |-> [tag |-> "Some", val |-> box_elem_unchecked(self, self.len - 1)]]

\* where the element after index starts, as try_replace_elem takes it
next_element_start_offset(self, index) ==
    IF index = self.len - 1
    THEN self.cap - data_section_size(self)
    ELSE get_data(self, index + 1).offset

free_space_start_offset(self, index) ==
    IF index = 0 THEN 0
    ELSE get_data(self, index - 1).offset + sizeof_elem(self, index - 1)

\* where try_replace_elem would put e: the free space start, aligned for e
new_elem_starting_offset(self, e, index) ==
    free_space_start_offset(self, index)
    + align_offset(self.ptr + free_space_start_offset(self, index), e.align)

actual_free_space(self, e, index) ==
    saturating_sub(next_element_start_offset(self, index),
                   new_elem_starting_offset(self, e, index))

\* the records and elements try_replace_elem reads: none before the bounds check, the
\* neighbours' records for the window, the element itself once it is boxed
try_replace_elem_reads(self, e, index) ==
    IF index >= self.len THEN {}
    ELSE (IF index = 0 THEN {} ELSE {index - 1})
         \cup (IF index = self.len - 1 THEN {} ELSE {index + 1})
         \cup (IF actual_free_space(self, e, index) < e.size THEN {} ELSE {index})

\* try_replace_elem copying the element in before it has checked the free space
try_replace_elem_copy_first(self, e, index) ==
    IF index >= self.len
    THEN [self |-> self, ret |-> [tag |-> "Err", val |-> Value(e)]]
    ELSE LET old_elem == box_elem_unchecked(self, index)
             m1 == WriteBytes(self.mem, new_elem_starting_offset(self, e, index),
                              Value(e).bytes)
             m2 == write_meta_data([self EXCEPT !.mem = m1], e,
                                   new_elem_starting_offset(self, e, index), index)
         IN IF actual_free_space(self, e, index) < e.size
            THEN [self |-> [self EXCEPT !.mem = m1], ret |-> [tag |-> "Err", val |-> Value(e)]]
            ELSE [self |-> [self EXCEPT !.mem = m2], ret |-> [tag |-> "Ok", val |-> old_elem]]

\* try_replace_elem without its bounds check
try_replace_elem_unchecked(self, e, index) ==
    IF actual_free_space(self, e, index) < e.size
    THEN [self |-> self, ret |-> [tag |-> "Err", val |-> Value(e)]]
    ELSE LET old_elem == box_elem_unchecked(self, index)
             m1 == WriteBytes(self.mem, new_elem_starting_offset(self, e, index),
                              Value(e).bytes)
             m2 == write_meta_data([self EXCEPT !.mem = m1], e,
                                   new_elem_starting_offset(self, e, index), index)
         IN [self |-> [self EXCEPT !.mem = m2], ret |-> [tag |-> "Ok", val |-> old_elem]]

try_replace_elem(self, e, index) ==
    IF index >= self.len
    THEN [self |-> self, ret |-> [tag |-> "Err", val |-> Value(e)]]
    ELSE IF actual_free_space(self, e, index) < e.size
    THEN [self |-> self, ret |-> [tag |-> "Err", val |-> Value(e)]]
    ELSE LET old_elem == box_elem_unchecked(self, index)
             m1 == WriteBytes(self.mem, new_elem_starting_offset(self, e, index),
                              Value(e).bytes)
             m2 == write_meta_data([self EXCEPT !.mem = m1], e,
                                   new_elem_starting_offset(self, e, index), index)
         IN [self |-> [self EXCEPT !.mem = m2], ret |-> [tag |-> "Ok", val |-> old_elem]]

\* ------------------------------------------------------------ iterators
\* RawVechonk::copy: the fields are copied, the allocation is shared
copy(self) == [ptr |-> self.ptr, len |-> self.len, cap |-> self.cap, elem_size |-> self.elem_size]

\* the RawVechonk an iterator holds, reading the allocation m it points into
IterRaw(it, m) ==
    [ptr |-> it.raw.ptr, len |-> it.raw.len, cap |-> it.raw.cap,
     elem_size |-> it.raw.elem_size, mem |-> m]

\* Iter::new, IterMut::new and IntoIter::new: a copy of chonk.raw and current_index 0
\* (calls, yielded, last and snapshot record what the iterator goes on to do)
iter_new(kind, self) ==
    [kind |-> kind, raw |-> copy(self), current_index |-> 0,
     calls |-> 0, yielded |-> <<>>, last |-> [tag |-> "Unit", val |-> NoValue],
     snapshot |-> Elements(self)]

\* Iter::next; the value of Some is what the reference handed out points to
Iter_next(it, m) ==
    IF it.current_index = it.raw.len
    THEN [it |-> it, ret |-> [tag |-> "None", val |-> NoValue]]
    ELSE [it |-> [it EXCEPT !.current_index = it.current_index + 1],
          ret |-> [tag |-> "Some", val |-> ReadElem(IterRaw(it, m), it.current_index)]]

\* IterMut::next
IterMut_next(it, m) ==
    IF it.current_index = it.raw.len
    THEN [it |-> it, ret |-> [tag |-> "None", val |-> NoValue]]
    ELSE [it |-> [it EXCEPT !.current_index = it.current_index + 1],
          ret |-> [tag |-> "Some", val |-> ReadElem(IterRaw(it, m), it.current_index)]]

\* IntoIter::next handing out the element after the current one
IntoIter_next_skipping(it, m) ==
    IF it.current_index = it.raw.len
    THEN [it |-> it, ret |-> [tag |-> "None", val |-> NoValue]]
    ELSE [it |-> [it EXCEPT !.current_index = it.current_index + 1],
          ret |-> [tag |-> "Some",
                   val |-> box_elem_unchecked(IterRaw(it, m), it.current_index + 1)]]

\* IntoIter::next
IntoIter_next(it, m) ==
    IF it.current_index = it.raw.len
    THEN [it |-> it, ret |-> [tag |-> "None", val |-> NoValue]]
    ELSE [it |-> [it EXCEPT !.current_index = it.current_index + 1],
          ret |-> [tag |-> "Some",
                   val |-> box_elem_unchecked(IterRaw(it, m), it.current_index)]]

\* size_hint counting the elements handed out instead of those left
size_hint_of_yielded(it) ==
    <<it.current_index, [tag |-> "Some", val |-> it.current_index]>>

\* Iterator::size_hint of the three iterators: (count, Some(count))
size_hint(it) ==
    LET count == it.raw.len - it.current_index
    IN <<count, [tag |-> "Some", val |-> count]>>

\* ExactSizeIterator::len of the three iterators
ExactSizeIterator_len(it) == it.raw.len - it.current_index

\* Index::index: panics out of bounds, otherwise the element get_unchecked refers to
Vechonk_index(self, i) ==
    IF i >= self.len THEN [tag |-> "Panic", val |-> NoValue]
    ELSE [tag |-> "Some", val |-> ReadElem(self, i)]

\* ------------------------------------------------------------ the state machine
Install(new) ==
    /\ ptr' = new.ptr
    /\ len' = new.len
    /\ cap' = new.cap
    /\ elem_size' = new.elem_size
    /\ mem' = new.mem

\* an operation: its name, its arguments, whether it ran regrow, what it returned,
\* and the name of the operation performed before it
Op(name, e, index, grew, ret, after) ==
    [name |-> name, elem |-> e, index |-> index, grew |-> grew, ret |-> ret, after |-> after]

NoElem == [size |-> 0, align |-> 0, val |-> 0]
Unit == [tag |-> "Unit", val |-> NoValue]

\* no iterator is in use
NoIter == [kind |-> "none", raw |-> [ptr |-> 0, len |-> 0, cap |-> 0, elem_size |-> 0],
           current_index |-> 0, calls |-> 0, yielded |-> <<>>, last |-> Unit,
           snapshot |-> <<>>]
\* neither get nor index has been called on this state
NoObs == [name |-> "none", index |-> 0, ret |-> Unit]

\* no second Vechonk is looked at
NoOther == [raw |-> [ptr |-> Dangling, len |-> 0, cap |-> 0, elem_size |-> 0, mem |-> <<>>],
            pushed |-> <<>>]

\* the Vechonk is there, not borrowed by an iterator, and the program has not panicked
Usable == owner = "vechonk" /\ iter.kind = "none" /\ obs.ret.tag /= "Panic"

InitWith(hint) ==
    \E a \in (IF force_align(hint, DataAlign) = 0 THEN {Dangling} ELSE { b \in AllocAddrs : Block(b) = 1 }) :
        /\ ptr = with_capacity(hint, a).ptr
        /\ len = with_capacity(hint, a).len
        /\ cap = with_capacity(hint, a).cap
        /\ elem_size = with_capacity(hint, a).elem_size
        /\ mem = with_capacity(hint, a).mem
        /\ shadow = <<>>
        /\ placed = <<>>
        /\ regrows = 0
        /\ lastOp = Op("with_capacity", NoElem, hint, FALSE, Unit, "none")
        /\ before = <<>>
        /\ history = "new"
        /\ ops = 0
        /\ heap = with_capacity_heap(hint, a)
        /\ owner = "vechonk"
        /\ iter = NoIter
        /\ obs = NoObs
        /\ replaced = {}
        /\ dropped = {}
        /\ handed = <<>>

Init == \E hint \in CapHints : InitWith(hint) /\ other = NoOther

\* push(e) on the Vechonk
PushStep(e) ==
    /\ Usable
    /\ ops < MaxOps
    /\ ops' = ops + 1
    /\ len < MaxLen
    /\ LET grows == push_grows(Self, e) IN
       /\ grows => regrow_new_cap(cap + e.size + DataSize) <= MaxCap
       /\ \E a \in (IF grows THEN FreeAddrs(Self) ELSE {ptr}) :
            /\ Install(push(Self, e, a))
            /\ placed' = Append(placed, push_dest(push(Self, e, a), elem_size, e))
            /\ heap' = IF grows THEN regrow_heap(heap, Self, cap + e.size + DataSize, a)
                       ELSE heap
       /\ lastOp' = Op("push", e, len, grows, Unit, lastOp.name)
       /\ regrows' = IF grows THEN regrows + 1 ELSE regrows
    /\ shadow' = Append(shadow, Value(e))
    /\ before' = Elements(Self)
    /\ history' = IF history \in {"new", "pushes"} THEN "pushes" ELSE "mixed"
    /\ obs' = NoObs
    /\ UNCHANGED <<owner, iter, replaced, dropped, handed>>

Push(e) == PushStep(e) /\ UNCHANGED other

Pop ==
    /\ Usable
    /\ ops < MaxOps
    /\ ops' = ops + 1
    /\ Install(pop(Self).self)
    /\ lastOp' = Op("pop", NoElem, len, FALSE, pop(Self).ret, lastOp.name)
    /\ shadow' = IF len = 0 THEN shadow ELSE SubSeq(shadow, 1, len - 1)
    /\ placed' = IF len = 0 THEN placed ELSE SubSeq(placed, 1, len - 1)
    /\ UNCHANGED regrows
    /\ before' = Elements(Self)
    /\ history' = IF history \in {"pushes", "pops"} THEN "pops" ELSE "mixed"
    /\ obs' = NoObs
    /\ replaced' = replaced \ {len - 1}
    /\ handed' = IF pop(Self).ret.tag = "Some" THEN Append(handed, pop(Self).ret.val)
                 ELSE handed
    /\ UNCHANGED <<heap, owner, iter, other, dropped>>

TryReplace(e, index) ==
    LET r == try_replace_elem(Self, e, index) IN
    /\ Usable
    /\ ops < MaxOps
    /\ ops' = ops + 1
    /\ Install(r.self)
    /\ lastOp' = Op("try_replace_elem", e, index, FALSE, r.ret, lastOp.name)
    /\ shadow' = IF r.ret.tag = "Ok" THEN [shadow EXCEPT ![index + 1] = Value(e)] ELSE shadow
    /\ placed' = IF r.ret.tag = "Ok"
                 THEN [placed EXCEPT ![index + 1] = new_elem_starting_offset(Self, e, index)]
                 ELSE placed
    /\ UNCHANGED regrows
    /\ before' = Elements(Self)
    /\ history' = "mixed"
    /\ obs' = NoObs
    /\ replaced' = IF r.ret.tag = "Ok" THEN replaced \cup {index} ELSE replaced
    /\ handed' = IF r.ret.tag = "Ok" THEN Append(handed, r.ret.val) ELSE handed
    /\ UNCHANGED <<heap, owner, iter, other, dropped>>

Next ==
    \/ \E e \in Elems(ops + 1) : Push(e)
    \/ Pop
    \/ \E e \in Elems(ops + 1), index \in 0..MaxLen : TryReplace(e, index)

Spec == Init /\ [][Next]_vars

\* ------------------------------------------------- elements of a large alignment
\* (size, align) of u8 and of a zero-sized type with #[repr(align(32))]
WideLayouts == { <<1, 1>>, <<0, 32>> }

WideElems(n) == { [size |-> l[1], align |-> l[2], val |-> n] : l \in WideLayouts }

WideNext ==
    \/ \E e \in WideElems(ops + 1) : Push(e)
    \/ \E e \in WideElems(ops + 1), index \in 0..MaxLen : TryReplace(e, index)

\* the same Vechonk, given elements of these two types
WideSpec == Init /\ [][WideNext]_vars

\* ---------------------------------------------- views, queries and the end of life
\* what the calls below leave alone: the Vechonk's fields and memory and their history
container == <<ptr, len, cap, elem_size, mem, shadow, placed, regrows, lastOp, before,
               history, ops, other, replaced>>

\* Vechonk::get(index)
Get(i) ==
    /\ Usable
    /\ obs' = [name |-> "get", index |-> i, ret |-> get(Self, i)]
    /\ UNCHANGED <<container, dropped, handed, heap, owner, iter>>

\* chonk[index]
Index(i) ==
    /\ Usable
    /\ obs' = [name |-> "index", index |-> i, ret |-> Vechonk_index(Self, i)]
    /\ UNCHANGED <<container, dropped, handed, heap, owner, iter>>

\* Vechonk::iter
IterNew ==
    /\ Usable
    /\ iter' = iter_new("iter", Self)
    /\ obs' = NoObs
    /\ UNCHANGED <<container, dropped, handed, heap, owner>>

\* Vechonk::iter_mut
IterMutNew ==
    /\ Usable
    /\ iter' = iter_new("iter_mut", Self)
    /\ obs' = NoObs
    /\ UNCHANGED <<container, dropped, handed, heap, owner>>

\* Vechonk::into_iter: the Vechonk is moved into ManuallyDrop, its Drop never runs
IntoIterNew ==
    /\ Usable
    /\ iter' = iter_new("into_iter", Self)
    /\ owner' = "into_iter"
    /\ obs' = NoObs
    /\ UNCHANGED <<container, dropped, handed, heap>>

\* one call of next on the iterator in use; it is called again after it has returned None
IterNext ==
    /\ iter.kind \in {"iter", "iter_mut", "into_iter"}
    /\ iter.calls <= iter.raw.len + 1
    /\ LET r == CASE iter.kind = "iter" -> Iter_next(iter, mem)
                   [] iter.kind = "iter_mut" -> IterMut_next(iter, mem)
                   [] iter.kind = "into_iter" -> IntoIter_next(iter, mem)
       IN iter' = [r.it EXCEPT !.calls = iter.calls + 1,
                               !.last = r.ret,
                               !.yielded = IF r.ret.tag = "Some"
                                           THEN Append(iter.yielded,
                                                       [index |-> iter.current_index,
                                                        val |-> r.ret.val])
                                           ELSE iter.yielded]
    /\ handed' = IF iter.kind = "into_iter" /\ IntoIter_next(iter, mem).ret.tag = "Some"
                 THEN Append(handed, IntoIter_next(iter, mem).ret.val)
                 ELSE handed
    /\ UNCHANGED <<container, dropped, heap, owner, obs>>

\* a Drop that ran the destructor of every element still stored, those from index on
drop_in_place_elems(self, index) == index..(self.len - 1)

\* the elements whose destructor Drop for Vechonk and Drop for IntoIter run: none,
\* both only free the allocation
drop_elems(self, index) == {}

\* an Iter or IterMut goes out of scope: the borrow of the Vechonk ends
DropIter ==
    /\ iter.kind \in {"iter", "iter_mut"}
    /\ iter' = NoIter
    /\ UNCHANGED <<container, dropped, handed, heap, owner, obs>>

\* Drop for IntoIter, at whatever point of the traversal
DropIntoIter ==
    /\ iter.kind = "into_iter"
    /\ heap' = dealloc(heap, iter.raw.cap, iter.raw.ptr)
    /\ owner' = "none"
    /\ iter' = [iter EXCEPT !.kind = "dropped"]
    /\ dropped' = dropped \cup drop_elems(IterRaw(iter, mem), iter.current_index)
    /\ UNCHANGED <<container, obs, handed>>

\* Drop for Vechonk
DropVechonk ==
    /\ Usable
    /\ heap' = dealloc(heap, cap, ptr)
    /\ owner' = "none"
    /\ obs' = NoObs
    /\ dropped' = dropped \cup drop_elems(Self, 0)
    /\ UNCHANGED <<container, iter, handed>>

\* a Vechonk made with any capacity hint, also one below the alignment of PtrData<T>
LifeInit == \E hint \in CapHints \cup {DataAlign - 1} : InitWith(hint) /\ other = NoOther

LifeNext ==
    \/ \E e \in Elems(ops + 1) : Push(e)
    \/ Pop
    \/ \E i \in 0..MaxLen : Get(i)
    \/ \E i \in 0..MaxLen : Index(i)
    \/ IterNew
    \/ IterMutNew
    \/ IntoIterNew
    \/ IterNext
    \/ DropIter
    \/ DropIntoIter
    \/ DropVechonk

Lifecycle == LifeInit /\ [][LifeNext]_vars

\* ------------------------------------------------------------ two Vechonks compared
\* the value an element has when compared, hashed or ordered: what is read through its
\* fat pointer; a byte as a number
ByteCode(c) ==
    CASE c[1] = "byte" -> (c[2] * 16 + c[3] + 1) % 256
      [] c[1] = "data" -> (c[2] + c[3] + c[4]) % 256
      [] c[1] = "cont" -> c[2]
      [] c[1] = "fresh" -> 0
      [] OTHER -> 255

\* PartialEq for Vechonk: equal length and pairwise equal elements in index order
Vechonk_eq(a, b) ==
    /\ a.len = b.len
    /\ \A i \in 0..(a.len - 1) : ReadElem(a, i) = ReadElem(b, i)

\* Hash for T: the length and every byte of the element go into the hasher state h
RECURSIVE HashBytes(_, _)
HashBytes(h, bytes) ==
    IF bytes = <<>> THEN h
    ELSE HashBytes((h * 31 + ByteCode(Head(bytes))) % 65536, Tail(bytes))

\* Hash for Vechonk: the hash of each element, combined in index order from element i on
RECURSIVE HashFrom(_, _, _)
HashFrom(a, i, h) ==
    IF i >= a.len THEN h
    ELSE HashFrom(a, i + 1,
                  HashBytes((h * 31 + ReadElem(a, i).size) % 65536, ReadElem(a, i).bytes))

Vechonk_hash(a) == HashFrom(a, 0, 7)

\* Ord for T: byte after byte, the shorter one first when one is a prefix of the other
RECURSIVE CmpBytes(_, _)
CmpBytes(x, y) ==
    IF x = <<>> /\ y = <<>> THEN "Equal"
    ELSE IF x = <<>> THEN "Less"
    ELSE IF y = <<>> THEN "Greater"
    ELSE IF ByteCode(Head(x)) < ByteCode(Head(y)) THEN "Less"
    ELSE IF ByteCode(Head(x)) > ByteCode(Head(y)) THEN "Greater"
    ELSE CmpBytes(Tail(x), Tail(y))

\* Ord for Vechonk: lexicographic over the elements in index order from element i on,
\* the shorter Vechonk first when one is a prefix of the other
RECURSIVE CmpFrom(_, _, _)
CmpFrom(a, b, i) ==
    IF i >= a.len /\ i >= b.len THEN "Equal"
    ELSE IF i >= a.len THEN "Less"
    ELSE IF i >= b.len THEN "Greater"
    ELSE IF CmpBytes(ReadElem(a, i).bytes, ReadElem(b, i).bytes) /= "Equal"
         THEN CmpBytes(ReadElem(a, i).bytes, ReadElem(b, i).bytes)
    ELSE CmpFrom(a, b, i + 1)

Vechonk_cmp(a, b) == CmpFrom(a, b, 0)

\* the elements the second Vechonk can be given when the first is given e:
\* the same value, or for an element with bytes one of the same type with other bytes
Twins(e) == {e} \cup (IF e.size > 0 THEN {[e EXCEPT !.val = 0]} ELSE {})

\* one value is pushed to the first Vechonk and one to the second
TwinPush(e, f) ==
    /\ PushStep(e)
    /\ LET g == push_grows(other.raw, f) IN
       /\ g => regrow_new_cap(other.raw.cap + f.size + DataSize) <= MaxCap
       /\ \E b \in (IF g THEN FreeAddrs(other.raw) ELSE {other.raw.ptr}) :
            other' = [raw |-> push(other.raw, f, b),
                      pushed |-> Append(other.pushed, Value(f))]

\* two Vechonks, each made with a capacity hint of its own
TwinInit ==
    \E hint \in CapHints, hint2 \in CapHints :
    \E b \in (IF force_align(hint2, DataAlign) = 0 THEN {Dangling}
              ELSE { c \in AllocAddrs : Block(c) = 1 }) :
        /\ InitWith(hint)
        /\ other = [raw |-> with_capacity(hint2, b), pushed |-> <<>>]

TwinNext == \E e \in Elems(ops + 1) : \E f \in Twins(e) : TwinPush(e, f)

TwinSpec == TwinInit /\ [][TwinNext]_vars

\* ------------------------------------------------------------ properties
Some(v) == [tag |-> "Some", val |-> v]
None == [tag |-> "None", val |-> NoValue]

\* the step just taken is one operation of the given name
Did(name) == lastOp'.name = name /\ ops' = ops + 1

\* C1: after n pushes on a freshly constructed container, len is n and get(i)
\* returns the i-th pushed element, bytes and metadata, for every i < n.
C1_PushesReadBack ==
    history = "pushes" =>
        /\ len = ops
        /\ \A i \in 0..(len - 1) : get(Self, i) = Some(shadow[i + 1])

\* C2: when at least one push of a sequence of pushes ran regrow, the elements
\* read back in index order are the pushed elements, and every PtrData<T> still
\* names the offset and metadata its push wrote.
C2_GrowthTransparent ==
    (history = "pushes" /\ regrows >= 1) =>
        /\ Elements(Self) = shadow
        /\ \A i \in 0..(len - 1) :
             get_data(Self, i) = [offset |-> placed[i + 1], size |-> shadow[i + 1].size,
                                  align |-> shadow[i + 1].align]

\* what get(index) returned before the last operation
GetBefore(index) == IF index < Len(before) THEN Some(before[index + 1]) ELSE None

ReplacedOutcome ==
    /\ lastOp.ret.tag = "Ok"
    /\ Some(lastOp.ret.val) = GetBefore(lastOp.index)
    /\ get(Self, lastOp.index) = Some(Value(lastOp.elem))

RejectedOutcome ==
    /\ lastOp.ret.tag = "Err"
    /\ lastOp.ret.val = Value(lastOp.elem)
    /\ get(Self, lastOp.index) = GetBefore(lastOp.index)

C4_PushPopRoundTrip ==
    [][ (lastOp.name = "push" /\ Did("pop")) =>
            /\ lastOp'.ret = Some(Value(lastOp.elem))
            /\ len' = Len(before)
            /\ \A j \in 0..(Len(before) - 1) : get(Self', j) = Some(before[j + 1]) ]_vars

\* C5: after n pushes, n pops return the pushed elements last in, first out, and a
\* pop of the emptied container returns None and changes no field.
C5_PopsReverseOrder ==
    [][ (history \in {"new", "pushes", "pops"} /\ Did("pop")) =>
            IF len = 0
            THEN /\ lastOp'.ret = None
                 /\ len' = 0 /\ elem_size' = elem_size /\ cap' = cap /\ ptr' = ptr
            ELSE lastOp'.ret = Some(shadow[len]) ]_vars

\* C6: elem_size + len * size_of::<PtrData<T>>() never exceeds cap, so the
\* subtraction in needs_grow does not underflow.
C6_RegionsFit == elem_size + data_section_size(Self) <= cap

\* the elements and the PtrData<T> section fill a grown allocation exactly
C6_Witness ==
    /\ len >= 2
    /\ regrows >= 1
    /\ elem_size > 0
    /\ elem_size + data_section_size(Self) = cap

\* C7: the bytes of every element in bounds lie inside [0, elem_size).
C7_ElementsWithinUsed ==
    \A i \in 0..(len - 1) :
        get_data(Self, i).offset + sizeof_elem(Self, i) <= elem_size

\* C8: the address of every element in bounds is a multiple of the element's
\* alignment, also after regrow has moved the elements to a new allocation.
C8_ElementsAligned ==
    \A i \in 0..(len - 1) :
        get_unchecked_ptr(Self, i) % get_data(Self, i).align = 0

\* C9: the PtrData<T> of index i is stored whole at cap - size_of::<PtrData<T>>() * (i + 1):
\* the slot lies inside the allocation and holds the offset and metadata of element i.
C9_DataSlots ==
    \A i \in 0..(len - 1) :
        /\ DataSize * (i + 1) <= cap
        /\ \A j \in 1..DataSize :
             ReadByte(Self, cap - DataSize * (i + 1) + j - 1)
               = DataBytes(placed[i + 1], shadow[i + 1].size, shadow[i + 1].align)[j]

\* C10: elem_size never decreases; a pop of a non-empty container takes one off len
\* and leaves elem_size, cap, ptr and the PtrData<T> and bytes of the lower indices
\* alone; the push after a pop stores its element at or after the unchanged elem_size.
C10_UsedNeverDecreases ==
    [][ /\ elem_size' >= elem_size
        /\ (Did("pop") /\ len > 0) =>
              /\ len' = len - 1
              /\ elem_size' = elem_size /\ cap' = cap /\ ptr' = ptr
              /\ \A j \in 0..(len - 2) :
                    /\ get_data(Self', j) = get_data(Self, j)
                    /\ ReadElem(Self', j) = ReadElem(Self, j)
        /\ (Did("push") /\ lastOp.name = "pop") =>
              /\ placed'[len'] >= elem_size ]_vars

\* a push after a pop has emptied the container: its element does not start at 0
C10_Witness ==
    /\ lastOp.name = "push"
    /\ lastOp.after = "pop"
    /\ len = 1
    /\ lastOp.elem.align = 1
    /\ placed[1] > 0

\* C11: a try_replace_elem with index < len that is rejected for lack of an aligned
\* start or of space hands back the element it was given and changes nothing: len,
\* elem_size, cap, ptr and every byte of the allocation are as before the call.
C11_RejectionMutatesNothing ==
    [][ (Did("try_replace_elem") /\ lastOp'.index < len /\ lastOp'.ret.tag = "Err") =>
            /\ lastOp'.ret.val = Value(lastOp'.elem)
            /\ Self' = Self ]_vars

\* an element that does not fit was rejected at an index in bounds
C11_Witness ==
    /\ lastOp.name = "try_replace_elem"
    /\ lastOp.ret.tag = "Err"
    /\ lastOp.index < len
    /\ lastOp.elem.size > 0

\* C12: a try_replace_elem with index >= len (any index when the container is empty)
\* hands back the element it was given, changes nothing, and reads no record and
\* no element.
C12_OutOfBoundsReplace ==
    [][ (Did("try_replace_elem") /\ lastOp'.index >= len) =>
            /\ lastOp'.ret = [tag |-> "Err", val |-> Value(lastOp'.elem)]
            /\ Self' = Self
            /\ try_replace_elem_reads(Self, lastOp'.elem, lastOp'.index) = {} ]_vars

\* a zero-sized element, which fits anywhere, was rejected at index = len of a container
\* that holds elements
C12_Witness ==
    /\ lastOp.name = "try_replace_elem"
    /\ lastOp.index = len
    /\ len > 0
    /\ lastOp.elem.size = 0
    /\ lastOp.ret.tag = "Err"

\* C13: try_replace_elem, whether it replaces or rejects, never reallocates and never
\* touches another element: ptr, cap and len are unchanged, and for every j other than
\* index the PtrData of j and the bytes of element j are unchanged, so get(j) is too.
C13_ReplaceFrame ==
    [][ Did("try_replace_elem") =>
            /\ ptr' = ptr /\ cap' = cap /\ len' = len
            /\ \A j \in 0..(len - 1) :
                 j /= lastOp'.index =>
                     /\ get_data(Self', j) = get_data(Self, j)
                     /\ \A k \in 0..(DataSize - 1) :
                          ReadByte(Self', get_data_ptr(Self, j) + k)
                              = ReadByte(Self, get_data_ptr(Self, j) + k)
                     /\ ReadElem(Self', j) = ReadElem(Self, j)
                     /\ get(Self', j) = get(Self, j) ]_vars

\* the free space is insufficient for e: the aligned start of e, its size and the
\* PtrData of len + 1 elements together exceed cap
Insufficient(self, e) ==
    self.elem_size + align_offset(self.ptr + self.elem_size, e.align)
        + e.size + DataSize * (self.len + 1) > self.cap

\* C14: push changes the buffer (ptr and cap) if and only if the free space was
\* insufficient; when the element fits, ptr and cap are unchanged and the address
\* obtained before for any element still lies in the allocation.
C14_PushGrowsIffInsufficient ==
    [][ Did("push") =>
            /\ (ptr' /= ptr /\ cap' /= cap) <=> Insufficient(Self, lastOp'.elem)
            /\ (ptr' /= ptr \/ cap' /= cap) <=> Insufficient(Self, lastOp'.elem)
            /\ lastOp'.grew <=> Insufficient(Self, lastOp'.elem)
            /\ ~Insufficient(Self, lastOp'.elem) =>
                  \A j \in 0..(len - 1) :
                      /\ get_unchecked_ptr(Self, j) >= ptr'
                      /\ get_unchecked_ptr(Self, j) <= ptr' + cap' ]_vars

\* an element that needed padding was pushed into a grown buffer without growing it
C14_Witness ==
    /\ lastOp.name = "push"
    /\ ~lastOp.grew
    /\ regrows >= 1
    /\ len >= 2
    /\ placed[len] > elem_size - lastOp.elem.size

\* C15: every allocation is freed exactly once: the old buffer by the regrow that
\* replaces it, the current one by Drop for Vechonk or, after into_iter, by Drop for
\* IntoIter, exhausted or not.  Nothing is freed twice, nothing that was not allocated,
\* the current buffer is not freed while it is owned, and dealloc frees nothing for a
\* capacity of 0.
C15_FreedExactlyOnce ==
    /\ heap.invalid = 0
    /\ owner = "none" => heap.live = {}
    /\ owner /= "none" =>
         heap.live = IF cap = 0 THEN {} ELSE {[ptr |-> ptr, size |-> cap]}

\* an IntoIter over a Vechonk that had grown twice was dropped before it was exhausted
C15_Witness ==
    /\ owner = "none"
    /\ iter.kind = "dropped"
    /\ iter.calls < len
    /\ heap.freed >= 2
    /\ regrows >= 2

Min(a, b) == IF a <= b THEN a ELSE b

\* C16: an IntoIter over a Vechonk of length n yields exactly n boxes, the k-th equal to
\* what get(k) returned before into_iter, and None on every call after the n-th.
C16_ConsumingTraversal ==
    iter.kind \in {"into_iter", "dropped"} =>
        LET n == Len(iter.snapshot) IN
        /\ n = len
        /\ Len(iter.yielded) = Min(iter.calls, n)
        /\ \A k \in 1..Len(iter.yielded) : iter.yielded[k].val = iter.snapshot[k]
        /\ iter.calls > n => iter.last = None
        /\ (iter.calls > 0 /\ iter.calls <= n) => iter.last = Some(iter.snapshot[iter.calls])

\* an IntoIter over MaxLen elements, one of them with bytes, was called once more after
\* its last element
C16_Witness ==
    /\ iter.kind = "into_iter"
    /\ len = MaxLen
    /\ iter.calls = len + 1
    /\ iter.last = None
    /\ \E k \in 1..len : iter.yielded[k].val.size > 0

\* C17: for Iter, IterMut and IntoIter over a Vechonk of length n, after k calls of next
\* (k <= n) size_hint is (n - k, Some(n - k)) and len() is n - k; the calls yield the
\* elements of indices 0, 1, .., n-1 in this order, each once, and None from then on.
C17_ViewsCountDown ==
    iter.kind \in {"iter", "iter_mut", "into_iter"} =>
        LET n == len
            k == Min(iter.calls, n)
        IN /\ size_hint(iter) = <<n - k, [tag |-> "Some", val |-> n - k]>>
           /\ ExactSizeIterator_len(iter) = n - k
           /\ Len(iter.yielded) = k
           /\ \A j \in 1..k : /\ iter.yielded[j].index = j - 1
                               /\ Some(iter.yielded[j].val) = get(Self, j - 1)
           /\ iter.calls > n => iter.last = None
           /\ (iter.calls > 0 /\ iter.calls <= n) => iter.last.tag = "Some"

\* an IterMut over MaxLen elements has returned None twice
C17_Witness ==
    /\ iter.kind = "iter_mut"
    /\ len = MaxLen
    /\ iter.calls = len + 2
    /\ iter.last = None

\* C18: get(index) is Some exactly when index < len and None otherwise, chonk[index]
\* panics exactly when index >= len, and neither changes the Vechonk.
C18_BoundsChecked ==
    [][ /\ obs'.name = "get" =>
              /\ obs'.ret.tag = "Some" <=> obs'.index < len
              /\ obs'.ret.tag = "None" <=> obs'.index >= len
              /\ obs'.ret.tag = "Some" => obs'.ret.val = ReadElem(Self, obs'.index)
              /\ Self' = Self /\ heap' = heap /\ owner' = owner
        /\ obs'.name = "index" =>
              /\ obs'.ret.tag = "Panic" <=> obs'.index >= len
              /\ obs'.ret.tag = "Some" <=> obs'.index < len
              /\ obs'.ret.tag = "Some" => obs'.ret.val = ReadElem(Self, obs'.index)
              /\ Self' = Self /\ heap' = heap /\ owner' = owner ]_vars

\* get returned None for the index just past the last element
C18_Witness ==
    /\ obs.name = "get"
    /\ obs.index = len
    /\ len > 0
    /\ obs.ret = None

\* C19: with_capacity(hint) gives len = 0 and elem_size = 0 and the largest multiple of
\* the alignment of PtrData<T> that is <= hint as cap; for cap = 0 nothing is allocated,
\* otherwise exactly one allocation of cap bytes is made.
C19_Construct ==
    (lastOp.name = "with_capacity" /\ owner = "vechonk") =>
        LET hint == lastOp.index IN
        /\ len = 0
        /\ elem_size = 0
        /\ cap = hint - (hint % DataAlign)
        /\ cap % DataAlign = 0 /\ cap <= hint /\ hint < cap + DataAlign
        /\ IF cap = 0 THEN heap = NoHeap /\ ptr = Dangling
           ELSE heap = [live |-> {[ptr |-> ptr, size |-> cap]}, freed |-> 0, invalid |-> 0]

\* a hint that is no multiple of the alignment was rounded down to a capacity above 0
C19_Witness ==
    /\ lastOp.name = "with_capacity"
    /\ owner = "vechonk"
    /\ lastOp.index % DataAlign /= 0
    /\ cap > 0
    /\ cap < lastOp.index

\* C20: two Vechonks that were given the same values in the same order are equal, hash
\* alike and compare as Equal, whatever their capacity hints and however often each
\* grew; two that were given sequences differing in length or at some position are
\* not equal.
C20_SameValuesEqual ==
    /\ other.pushed = shadow =>
          /\ Vechonk_eq(Self, other.raw)
          /\ Vechonk_hash(Self) = Vechonk_hash(other.raw)
          /\ Vechonk_cmp(Self, other.raw) = "Equal"
    /\ other.pushed /= shadow => ~Vechonk_eq(Self, other.raw)

\* C22: after every push elem_size is the offset stored for the new element plus its
\* size, that offset being the elem_size before the push plus the padding put in front
\* of the element: the padding is counted in elem_size.
C22_PaddingCounted ==
    [][ Did("push") =>
            /\ placed'[len'] = elem_size + align_offset(ptr' + elem_size, lastOp'.elem.align)
            /\ get_data(Self', len' - 1).offset = placed'[len']
            /\ elem_size' = placed'[len'] + lastOp'.elem.size ]_vars

\* C23: the elements are pairwise disjoint and lie in index order: for i < j < len the
\* end of element i is at or before the start of element j.
C23_ElementsDisjoint ==
    \A i \in 0..(len - 1) : \A j \in (i + 1)..(len - 1) :
        get_data(Self, i).offset + sizeof_elem(Self, i) <= get_data(Self, j).offset

\* C24 as stated: whenever push grows the buffer, the new cap is a multiple of the
\* alignment of PtrData<T>, at least twice the old cap plus the size of the element plus
\* the size of a PtrData<T>, greater than the old cap and not 0.
C24_GrowthAtLeastDouble ==
    [][ (Did("push") /\ lastOp'.grew) =>
            /\ cap' % DataAlign = 0
            /\ cap' >= 2 * (cap + lastOp'.elem.size + DataSize)
            /\ cap' > cap
            /\ cap' /= 0 ]_vars

\* C24 amended: whenever push grows the buffer, the new cap is twice (old cap + size of
\* the element + size of a PtrData<T>) rounded down to a multiple of the alignment of
\* PtrData<T>: at most that double and less than one alignment below it, greater than
\* the old cap and not 0.
C24_GrowthDoubleRoundedDown ==
    [][ (Did("push") /\ lastOp'.grew) =>
            /\ cap' % DataAlign = 0
            /\ cap' <= 2 * (cap + lastOp'.elem.size + DataSize)
            /\ cap' > 2 * (cap + lastOp'.elem.size + DataSize) - DataAlign
            /\ cap' > cap
            /\ cap' /= 0 ]_vars

\* a buffer that held an element grew for a 1-byte element, so the double was rounded
C24_Witness ==
    /\ lastOp.name = "push"
    /\ lastOp.grew
    /\ lastOp.elem.size = 1
    /\ len >= 2
    /\ regrows >= 2
    /\ cap % DataAlign = 0

\* C25: whenever push copies an element in, after a regrow or without one, the bytes
\* written, from the offset aligned against the buffer written to, end at or before
\* cap - size of a PtrData<T> * (len + 1): the copy stays inside the allocation and off
\* every PtrData<T>, the one about to be written included.
C25_PushWritesInFreeSpace ==
    [][ Did("push") =>
            /\ placed'[len'] = elem_size + align_offset(ptr' + elem_size, lastOp'.elem.align)
            /\ placed'[len'] + lastOp'.elem.size <= cap' - DataSize * (len + 1) ]_vars

\* the buffer as regrow leaves it in the push just made, before the element is copied in
GrownByPush == regrow(Self, cap + lastOp'.elem.size + DataSize, ptr')

\* C26: a regrow changes only ptr and cap: len, elem_size and the PtrData<T> of every
\* element are as before, and the bytes of every element at its offset in the new
\* buffer are its bytes in the old one.
C26_GrowthFrame ==
    [][ (Did("push") /\ lastOp'.grew) =>
            /\ GrownByPush.len = len
            /\ GrownByPush.elem_size = elem_size
            /\ \A i \in 0..(len - 1) :
                 /\ get_data(GrownByPush, i) = get_data(Self, i)
                 /\ ReadElem(GrownByPush, i) = ReadElem(Self, i) ]_vars

\* C27: for the last index the window of try_replace_elem ends at elem_size: an
\* element whose aligned start plus size exceeds elem_size is rejected.
C27_LastWindowEndsAtUsed ==
    [][ ( /\ Did("try_replace_elem")
          /\ len > 0
          /\ lastOp'.index = len - 1
          /\ new_elem_starting_offset(Self, lastOp'.elem, len - 1) + lastOp'.elem.size
               > elem_size )
        => lastOp'.ret.tag = "Err" ]_vars

\* the window try_replace_elem has for index: from the end of the element before it to
\* the start of the element after it, or to elem_size for the last index
WindowStart(self, index) ==
    IF index = 0 THEN 0
    ELSE get_data(self, index - 1).offset + sizeof_elem(self, index - 1)

WindowEnd(self, index) ==
    IF index = self.len - 1 THEN self.elem_size ELSE get_data(self, index + 1).offset

\* C28: an element that try_replace_elem has accepted at index is stored at an offset s
\* at or after the start of the window, with ptr + s a multiple of its alignment and
\* s plus its size at or before the end of the window, zero-sized elements included.
C28_ReplacedInsideWindow ==
    [][ (Did("try_replace_elem") /\ lastOp'.ret.tag = "Ok") =>
          LET s == get_data(Self', lastOp'.index).offset IN
            /\ WindowStart(Self, lastOp'.index) <= s
            /\ (ptr + s) % lastOp'.elem.align = 0
            /\ s + lastOp'.elem.size <= WindowEnd(Self, lastOp'.index) ]_vars

\* C29: cap is always a multiple of the alignment of PtrData<T>, 0 included, so the
\* slot of every index, cap - size_of::<PtrData<T>>() * (i + 1), is one too; and cap
\* never decreases.
C29_CapAligned ==
    [][ /\ cap % DataAlign = 0
        /\ cap' % DataAlign = 0
        /\ \A i \in 0..(len' - 1) : offset_for_data(Self', i) % DataAlign = 0
        /\ cap' >= cap ]_vars

\* a container has regrown past the capacity it was made with and holds two elements
C29_Witness ==
    /\ cap > force_align(52, DataAlign)
    /\ cap % DataAlign = 0
    /\ regrows >= 1
    /\ len >= 2

\* C30: once try_replace_elem(i, v) has returned Ok, get(i) is v in every later state
\* until the next successful try_replace_elem at i or the pop that removes index i,
\* whatever is pushed in between, with or without a regrow.
C30_ReplacedStays ==
    \A i \in replaced : get(Self, i) = Some(shadow[i + 1])

\* C21: when a Vechonk, or an IntoIter at whatever point of its traversal, is dropped
\* with elements still stored, the destructor of no element is run; only the allocation
\* is freed. No operation of the Vechonk ever runs the destructor of an element: the
\* elements that pop, try_replace_elem and IntoIter::next return are the caller's.
C21_NoDestructorsRun ==
    /\ dropped = {}
    /\ owner = "none" => heap.live = {}

\* an IntoIter that has yielded one of three elements has been dropped
C21_Witness ==
    /\ owner = "none"
    /\ iter.kind = "dropped"
    /\ iter.raw.len = 3
    /\ iter.current_index = 1
    /\ heap.live = {}

\* v is a value as it was given to push or try_replace_elem, with bytes of its own
IsPayload(v) ==
    /\ v.size > 0
    /\ \A k \in 1..v.size : v.bytes[k] = ElemByte(v.bytes[1][2], k - 1)

\* the values that can still be read or returned: through get and the borrowing
\* iterators while the Vechonk is owned, through the calls of next left to an IntoIter
Reachable ==
    CASE owner = "vechonk" -> { ReadElem(Self, i) : i \in 0..(len - 1) }
      [] owner = "into_iter" ->
           { ReadElem(IterRaw(iter, mem), i) : i \in iter.current_index..(iter.raw.len - 1) }
      [] OTHER -> {}

\* C31: the value that pop, a successful try_replace_elem or IntoIter::next has returned
\* as a Box<T> is not returned a second time and cannot be read afterwards, through
\* get, an Iter or IterMut, or a later call of IntoIter::next.
C31_OwnershipNotDuplicated ==
    /\ \A j \in 1..Len(handed) : \A k \in (j + 1)..Len(handed) :
          IsPayload(handed[j]) => handed[j] /= handed[k]
    /\ \A j \in 1..Len(handed) : IsPayload(handed[j]) => handed[j] \notin Reachable

\* ------------------------------------------------------------ slots of PtrData<T> in use
\* one use of offset_for_data: the index, the cap it is taken against, the len at that
\* time, and whether it is one of the two regrow makes
SlotAt(index, c, n, growing) == [index |-> index, cap |-> c, len |-> n, regrow |-> growing]

\* regrow: the slot of the last PtrData<T> in the old and in the new allocation
regrow_slots(self, min_size) ==
    { SlotAt(saturating_sub(self.len, 1), self.cap, self.len, TRUE),
      SlotAt(saturating_sub(self.len, 1), regrow_new_cap(min_size), self.len, TRUE) }

\* push: those of regrow if it grows, then write_meta_data at index len
push_slots(self, e) ==
    IF push_grows(self, e)
    THEN regrow_slots(self, self.cap + e.size + DataSize)
         \cup { SlotAt(self.len, regrow_new_cap(self.cap + e.size + DataSize), self.len, FALSE) }
    ELSE { SlotAt(self.len, self.cap, self.len, FALSE) }

\* pop: box_elem_unchecked of the last index
pop_slots(self) ==
    IF self.len = 0 THEN {} ELSE { SlotAt(self.len - 1, self.cap, self.len, FALSE) }

\* try_replace_elem: get_data of the neighbours, then of index itself
try_replace_elem_slots(self, e, index) ==
    { SlotAt(i, self.cap, self.len, FALSE) : i \in try_replace_elem_reads(self, e, index) }

\* get: get_data of index, once it is known to be in bounds
get_slots(self, index) ==
    IF index < self.len THEN { SlotAt(index, self.cap, self.len, FALSE) } ELSE {}

\* every use of offset_for_data that the next call on this Vechonk can make
NextSlots ==
    UNION { push_slots(Self, e) : e \in Elems(ops + 1) }
    \cup pop_slots(Self)
    \cup UNION { try_replace_elem_slots(Self, e, index) :
                   e \in Elems(ops + 1), index \in 0..MaxLen }
    \cup UNION { get_slots(Self, index) : index \in 0..MaxLen }

\* the subtraction in offset_for_data saturates
Clamps(a) == DataSize * (a.index + 1) > a.cap

\* C32: the saturating subtraction in offset_for_data clamps to 0 only in a regrow made
\* while len = 0, where no PtrData<T> is copied; every other slot that push, pop,
\* try_replace_elem, get or a regrow with len > 0 reads or writes has an index of at
\* most len and lies inside the allocation: size_of::<PtrData<T>>() * (i + 1) <= cap.
C32_SlotsInsideAllocation ==
    \A a \in NextSlots :
        /\ a.index <= a.len
        /\ Clamps(a) => (a.regrow /\ a.len = 0)

\* the push into an empty Vechonk without an allocation has regrown, and the next push
\* will regrow with a PtrData<T> to copy
C32_Witness ==
    /\ lastOp.name = "push"
    /\ lastOp.grew
    /\ regrows = 1
    /\ heap.freed = 0
    /\ len = 1
    /\ \E a \in NextSlots : a.regrow /\ a.len = 1 /\ ~Clamps(a)
====
